---- MODULE Spec2Model ----
(***************************************************************************)
(* The books service of gin-prometheus-grafana: the Prometheus middleware, *)
(* the five book handlers, the book repository and the books table it      *)
(* talks to.  One request is one gin.Context; a worker carries it from the  *)
(* middleware's entry, through the handler and every store statement the   *)
(* repository issues, to the middleware's exit.  A store statement is one  *)
(* atomic step; what the Go code does between two statements is local to   *)
(* the request and belongs to the step of the statement before it, except  *)
(* a reading of the clock, which is a step of its own.                     *)
(*                                                                         *)
(* Values.  A Go string is a TLA+ string.  A price is an integer number of *)
(* thousandths: 9990 is 9.99 and 19999 is 19.999.   A time.Time is the   *)
(* record [wall, off]: the wall-clock reading and the zone offset it is    *)
(* written with, the instant being wall - off.  A TIMESTAMP column holds a *)
(* wall-clock reading only.  The clock counts in the column's resolution,  *)
(* and a store round trip takes at least one unit of it.                   *)
(***************************************************************************)
EXTENDS Integers, Sequences, FiniteSets, TLC

\* ------------------------------------------------------------------ bounds

\* ids the books_id_seq sequence hands out
MaxID == 2
\* requests that enter the middleware, with the service's full range of
\* request bodies
MaxRequests == 3
\* requests that enter the middleware, with a few request bodies
MaxRequestsLong == 4

\* requests that enter the middleware when two of them run at a time
MaxRequestsConcurrent == 4

\* the ids the server gives the load tester
MaxBookIDs == 6

\* ------------------------------------------------------- program constants

StatusOK == 200
StatusCreated == 201
StatusNoContent == 204
StatusBadRequest == 400
StatusNotFound == 404
StatusInternalServerError == 500

\* title VARCHAR(255), author VARCHAR(255), isbn VARCHAR(13)
TitleLen == 255
AuthorLen == 255
ISBNLen == 13
\* price DECIMAL(10,2): one hundredth is ten thousandths
PriceUnit == 10
\* the inventory deleteBook of the load tester keeps
MinInventory == 5

\* ------------------------------------------------------------------ values

\* the ISBNs of two of the load tester's sample books, and the first of them
\* with a suffix as the load tester's createBook appends one
ISBNSuffixed == "97801323508841"
ISBNCleanCode == "9780132350884"
ISBNGoLanguage == "9780134190440"

RECURSIVE Repeat(_, _)
Repeat(s, n) == IF n = 0 THEN "" ELSE Repeat(s, n - 1) \o s

\* the zero time.Time
ZeroTime == [wall |-> 0, off |-> 0]

\* the instant a time.Time denotes (time.Time.Equal compares instants)
Instant(t) == t.wall - t.off

\* models.Book: the zero value of the struct
ZeroBook ==
    [ID |-> 0, Title |-> "", Author |-> "", ISBN |-> "", Price |-> 0,
     PublishedAt |-> ZeroTime, CreatedAt |-> ZeroTime, UpdatedAt |-> ZeroTime]

\* a JSON body's member: absent ({}) or present with a value ({v})
Present(m) == m # {}
Value(m) == CHOOSE v \in m : TRUE

\* models.CreateBookRequest as encoding/json fills it: an absent member
\* leaves the field at its zero value
DecodeCreate(json) ==
    [Title       |-> IF Present(json.title) THEN Value(json.title) ELSE "",
     Author      |-> IF Present(json.author) THEN Value(json.author) ELSE "",
     ISBN        |-> IF Present(json.isbn) THEN Value(json.isbn) ELSE "",
     Price       |-> IF Present(json.price) THEN Value(json.price) ELSE 0,
     PublishedAt |-> IF Present(json.published_at)
                     THEN Value(json.published_at) ELSE ZeroTime]

\* binding:"required": the field is not the zero value of its type
Required(v, zero) == v # zero

\* binding:"min=0" on a number
Min0(v) == v >= 0

\* the binding tags of models.CreateBookRequest
Binding(req) ==
    /\ Required(req.Title, "")
    /\ Required(req.Author, "")
    /\ Required(req.ISBN, "")
    /\ Required(req.Price, 0) /\ Min0(req.Price)
    /\ Required(req.PublishedAt, ZeroTime)

\* c.ShouldBindJSON(&req) for a CreateBookRequest: nil (TRUE) or an error
ShouldBindCreate(json) == json.wellformed /\ Binding(DecodeCreate(json))

\* c.ShouldBindJSON(&req) for an UpdateBookRequest: no binding tags, so only
\* an unparseable body is an error; every field is a pointer, nil when the
\* member is absent
ShouldBindUpdate(json) == json.wellformed

DecodeUpdate(json) ==
    [Title |-> json.title, Author |-> json.author, ISBN |-> json.isbn,
     Price |-> json.price, PublishedAt |-> json.published_at]

\* strconv.Atoi on the strings the model sends as :id
Digit(c) ==
    CASE c = "0" -> 0 [] c = "1" -> 1 [] c = "2" -> 2 [] c = "3" -> 3
      [] c = "4" -> 4 [] c = "5" -> 5 [] c = "6" -> 6 [] c = "7" -> 7
      [] c = "8" -> 8 [] c = "9" -> 9 [] OTHER -> -1

RECURSIVE Digits(_)
Digits(s) ==
    IF s = <<>> THEN [err |-> FALSE, val |-> 0]
    ELSE LET front == Digits(SubSeq(s, 1, Len(s) - 1))
             d == Digit(s[Len(s)])
         IN  IF front.err \/ d < 0 THEN [err |-> TRUE, val |-> 0]
             ELSE [err |-> FALSE, val |-> front.val * 10 + d]

Atoi(s) ==
    IF s = <<>> THEN [err |-> TRUE, val |-> 0]
    ELSE IF s[1] \in {"-", "+"}
         THEN IF Len(s) = 1 THEN [err |-> TRUE, val |-> 0]
              ELSE LET r == Digits(Tail(s))
                   IN  [err |-> r.err,
                        val |-> IF s[1] = "-" THEN 0 - r.val ELSE r.val]
         ELSE Digits(s)

\* ----------------------------------------------------------- the books table
\* CREATE TABLE books: a row per live id.  The table is a function from the
\* live ids to their rows; books_id_seq is the next value of the SERIAL
\* sequence behind id.

\* errors, as the strings a Go error prints
NoError == ""
ErrNoRows == "sql: no rows in result set"
ErrTooLong == "pq: value too long for type character varying"
ErrUnique == "pq: duplicate key value violates unique constraint"
ErrConn == "dial tcp: connection refused"

ZeroRow ==
    [id |-> 0, title |-> "", author |-> "", isbn |-> "", price |-> 0,
     published_at |-> 0, created_at |-> 0, updated_at |-> 0]

\* VARCHAR(n): a longer value is an error
Varchar(s, n) == Len(s) <= n

\* DECIMAL(10,2): the value rounded to two decimals, half away from zero
Numeric(p) ==
    IF p >= 0 THEN ((p + PriceUnit \div 2) \div PriceUnit) * PriceUnit
    ELSE 0 - ((((0 - p) + PriceUnit \div 2) \div PriceUnit) * PriceUnit)

\* TIMESTAMP (without time zone): the wall-clock reading; the zone offset of
\* the value sent is dropped
Timestamp(t) == t.wall

\* a TIMESTAMP as the driver hands it back: the reading, in UTC
FromTimestamp(v) == [wall |-> v, off |-> 0]

\* the columns fit their types
ColumnsFit(a) ==
    /\ Varchar(a.title, TitleLen)
    /\ Varchar(a.author, AuthorLen)
    /\ Varchar(a.isbn, ISBNLen)

\* isbn ... UNIQUE: some other row holds the value
ISBNTaken_NoConstraint(tbl, isbn, self) == FALSE

ISBNTaken(tbl, isbn, self) ==
    \E i \in DOMAIN tbl : i # self /\ tbl[i].isbn = isbn

\* row.Scan(&b.ID, &b.Title, ...): a row as a models.Book
Scan(row) ==
    [ID |-> row.id, Title |-> row.title, Author |-> row.author,
     ISBN |-> row.isbn, Price |-> row.price,
     PublishedAt |-> FromTimestamp(row.published_at),
     CreatedAt |-> FromTimestamp(row.created_at),
     UpdatedAt |-> FromTimestamp(row.updated_at)]

\* an INSERT that gives the row the lowest id no live row has
Insert_ReusesID(tbl, seq, a) ==
    LET id == CHOOSE i \in 1..(Cardinality(DOMAIN tbl) + 1) :
                /\ i \notin DOMAIN tbl
                /\ \A j \in 1..(i - 1) : j \in DOMAIN tbl
        row == [id |-> id, title |-> a.title, author |-> a.author,
                isbn |-> a.isbn, price |-> a.price,
                published_at |-> a.published_at.wall,
                created_at |-> a.created_at.wall,
                updated_at |-> a.updated_at.wall]
    IN  {[err |-> "", tbl |-> (id :> row) @@ tbl, seq |-> seq + 1,
          row |-> row]}

\* INSERT INTO books (...) VALUES ($1..$7) RETURNING ...: the outcomes the
\* store can give.  A failed INSERT has taken its id from the sequence when
\* the unique index refused the row; a value that does not fit its column is
\* refused either before or after the id was taken.
Insert(tbl, seq, a) ==
    IF ~ColumnsFit(a)
    THEN {[err |-> ErrTooLong, tbl |-> tbl, seq |-> s, row |-> ZeroRow] :
            s \in {seq, seq + 1}}
    ELSE IF ISBNTaken(tbl, a.isbn, 0)
    THEN {[err |-> ErrUnique, tbl |-> tbl, seq |-> seq + 1, row |-> ZeroRow]}
    ELSE LET row == [id |-> seq, title |-> a.title, author |-> a.author,
                     isbn |-> a.isbn, price |-> Numeric(a.price),
                     published_at |-> Timestamp(a.published_at),
                     created_at |-> Timestamp(a.created_at),
                     updated_at |-> Timestamp(a.updated_at)]
         IN  {[err |-> NoError, tbl |-> (seq :> row) @@ tbl,
               seq |-> seq + 1, row |-> row]}

\* a SELECT whose WHERE clause is lost
Select_AnyRow(tbl, id) ==
    IF DOMAIN tbl # {}
    THEN [err |-> "", row |-> tbl[CHOOSE i \in DOMAIN tbl : TRUE]]
    ELSE [err |-> "sql: no rows in result set",
          row |-> [id |-> 0, title |-> "", author |-> "", isbn |-> "",
                   price |-> 0, published_at |-> 0, created_at |-> 0,
                   updated_at |-> 0]]

\* SELECT ... FROM books WHERE id = $1
Select(tbl, id) ==
    IF id \in DOMAIN tbl
    THEN [err |-> NoError, row |-> tbl[id]]
    ELSE [err |-> ErrNoRows, row |-> ZeroRow]

\* a SELECT ... ORDER BY created_at, oldest first
SelectAll_Ascending(tbl) ==
    LET n == Cardinality(DOMAIN tbl)
        orders == {s \in [1..n -> DOMAIN tbl] :
                     /\ \A i, j \in 1..n : i # j => s[i] # s[j]
                     /\ \A i, j \in 1..n :
                          i < j => tbl[s[i]].created_at <= tbl[s[j]].created_at}
    IN  {[i \in 1..n |-> tbl[s[i]]] : s \in orders}

\* SELECT ... FROM books ORDER BY created_at DESC: every order of the rows
\* the ORDER BY allows (rows with equal created_at come in any order)
SelectAll(tbl) ==
    LET n == Cardinality(DOMAIN tbl)
        orders == {s \in [1..n -> DOMAIN tbl] :
                     /\ \A i, j \in 1..n : i # j => s[i] # s[j]
                     /\ \A i, j \in 1..n :
                          i < j => tbl[s[i]].created_at >= tbl[s[j]].created_at}
    IN  {[i \in 1..n |-> tbl[s[i]]] : s \in orders}

\* an UPDATE whose SET list has created_at = $6 too
Update_TouchesCreatedAt(tbl, id, a) ==
    IF id \notin DOMAIN tbl
    THEN [err |-> "sql: no rows in result set", tbl |-> tbl, row |-> ZeroRow]
    ELSE IF ~ColumnsFit(a) \/ ISBNTaken(tbl, a.isbn, id)
    THEN [err |-> "pq: error", tbl |-> tbl, row |-> ZeroRow]
    ELSE LET row == [tbl[id] EXCEPT
                       !.title = a.title, !.author = a.author,
                       !.isbn = a.isbn, !.price = Numeric(a.price),
                       !.published_at = Timestamp(a.published_at),
                       !.created_at = Timestamp(a.updated_at),
                       !.updated_at = Timestamp(a.updated_at)]
         IN  [err |-> "", tbl |-> [tbl EXCEPT ![id] = row], row |-> row]

\* an UPDATE on a table whose isbn column has no UNIQUE index
Update_NoUnique(tbl, id, a) ==
    IF id \notin DOMAIN tbl \/ ~ColumnsFit(a)
    THEN [err |-> "sql: no rows in result set", tbl |-> tbl, row |-> ZeroRow]
    ELSE LET row == [tbl[id] EXCEPT
                       !.title = a.title, !.author = a.author,
                       !.isbn = a.isbn, !.price = Numeric(a.price),
                       !.published_at = Timestamp(a.published_at),
                       !.updated_at = Timestamp(a.updated_at)]
         IN  [err |-> "", tbl |-> [tbl EXCEPT ![id] = row], row |-> row]

\* an UPDATE that writes the row when no row has the id
Update_Upsert(tbl, id, a) ==
    LET row == [id |-> id, title |-> a.title, author |-> a.author,
                isbn |-> a.isbn, price |-> Numeric(a.price),
                published_at |-> Timestamp(a.published_at),
                created_at |-> Timestamp(a.updated_at),
                updated_at |-> Timestamp(a.updated_at)]
    IN  IF id \notin DOMAIN tbl
        THEN [err |-> NoError, tbl |-> (id :> row) @@ tbl, row |-> row]
        ELSE [err |-> NoError,
              tbl |-> [tbl EXCEPT ![id] = [row EXCEPT
                                             !.created_at = tbl[id].created_at]],
              row |-> [row EXCEPT !.created_at = tbl[id].created_at]]

\* UPDATE books SET title = $1, ..., updated_at = $6 WHERE id = $7
\* RETURNING ...: id and created_at are not in the SET list
Update(tbl, id, a) ==
    IF id \notin DOMAIN tbl
    THEN [err |-> ErrNoRows, tbl |-> tbl, row |-> ZeroRow]
    ELSE IF ~ColumnsFit(a)
    THEN [err |-> ErrTooLong, tbl |-> tbl, row |-> ZeroRow]
    ELSE IF ISBNTaken(tbl, a.isbn, id)
    THEN [err |-> ErrUnique, tbl |-> tbl, row |-> ZeroRow]
    ELSE LET row == [tbl[id] EXCEPT
                       !.title = a.title, !.author = a.author,
                       !.isbn = a.isbn, !.price = Numeric(a.price),
                       !.published_at = Timestamp(a.published_at),
                       !.updated_at = Timestamp(a.updated_at)]
         IN  [err |-> NoError, tbl |-> [tbl EXCEPT ![id] = row], row |-> row]

\* a DELETE that reports a row affected whether or not one had the id
Delete_AlwaysAffected(tbl, id) ==
    [rowsAffected |-> 1, tbl |-> [i \in DOMAIN tbl \ {id} |-> tbl[i]]]

\* DELETE FROM books WHERE id = $1
Delete(tbl, id) ==
    IF id \in DOMAIN tbl
    THEN [rowsAffected |-> 1, tbl |-> [i \in DOMAIN tbl \ {id} |-> tbl[i]]]
    ELSE [rowsAffected |-> 0, tbl |-> tbl]

\* ------------------------------------------------------------------- state

VARIABLES
    books,                 \* the books table: live id -> row
    books_id_seq,          \* next value of the SERIAL sequence of books.id
    clock,                 \* the wall clock time.Now() reads
    ctx,                   \* worker -> the gin.Context of its request
    httpRequestsInFlight,  \* gauge http_requests_in_flight
    httpRequestsTotal,     \* counter vector http_requests_total
    dbQueryTotal,          \* counter vector db_query_total
    dbQueryDuration,       \* histogram vector db_query_duration_seconds:
                           \* the number of observations of each series
    deleted,               \* history: the ids a DELETE has removed
    recovered,             \* history: the requests a panic has taken out of
                           \* the middleware, answered by gin's Recovery
    createdBookIDs,        \* load tester: the ids it tracks, a Go slice
    goroutines             \* load tester: worker goroutine -> where it is in
                           \* updateBook or deleteBook, and its bookID

vars ==
    <<books, books_id_seq, clock, ctx, httpRequestsInFlight,
      httpRequestsTotal, dbQueryTotal, dbQueryDuration, deleted, recovered,
      createdBookIDs, goroutines>>

\* ----------------------------------------------------------------- metrics

\* vec.WithLabelValues(labels...).Inc() and .Observe(x): a series exists
\* from its first use
Inc(vec, labels) ==
    IF labels \in DOMAIN vec
    THEN [vec EXCEPT ![labels] = @ + 1]
    ELSE (labels :> 1) @@ vec

RECURSIVE SumOver(_, _)
SumOver(vec, keys) ==
    IF keys = {} THEN 0
    ELSE LET k == CHOOSE x \in keys : TRUE
         IN  vec[k] + SumOver(vec, keys \ {k})

\* the value of all series of a vector together
Total(vec) == SumOver(vec, DOMAIN vec)

\* --------------------------------------------------------------- repository

\* the error the repository makes of sql.ErrNoRows and of no row affected
ErrBookNotFound == "book with id %d not found"

\* time.Now(), in the server's zone (UTC)
Now == [wall |-> clock, off |-> 0]

\* BookRepository.GetBookByID: the SELECT, its counter and its histogram
BookRepository_GetBookByID(id, fault) ==
    LET r == IF fault THEN [err |-> ErrConn, row |-> ZeroRow]
             ELSE Select(books, id)
        status == IF r.err = NoError THEN "success"
                  ELSE IF r.err = ErrNoRows THEN "not_found" ELSE "error"
    IN  [book |-> IF r.err = NoError THEN Scan(r.row) ELSE ZeroBook,
         err |-> IF r.err = ErrNoRows THEN ErrBookNotFound ELSE r.err,
         total |-> Inc(dbQueryTotal, <<"select", "books", status>>),
         duration |-> Inc(dbQueryDuration, <<"select", "books">>)]

\* GetAllBooks without the replacement of the nil slice
BookRepository_GetAllBooks_NilSlice(rows, fault) ==
    [books |-> [isNil |-> Len(rows) = 0 \/ fault,
                items |-> [i \in 1..Len(rows) |-> Scan(rows[i])]],
     err |-> IF fault THEN ErrConn ELSE NoError,
     total |-> Inc(dbQueryTotal,
                   <<"select_all", "books",
                     IF fault THEN "error" ELSE "success">>),
     duration |-> Inc(dbQueryDuration, <<"select_all", "books">>)]

\* BookRepository.GetAllBooks on the rows the SELECT gave: the slice is nil
\* until the first append, and a nil slice is replaced by an empty one
BookRepository_GetAllBooks(rows, fault) ==
    LET scanned == [i \in 1..Len(rows) |-> Scan(rows[i])]
        appended == [isNil |-> Len(rows) = 0, items |-> scanned]
        result == IF appended.isNil THEN [isNil |-> FALSE, items |-> <<>>]
                  ELSE appended
    IN  IF fault
        THEN [books |-> [isNil |-> TRUE, items |-> <<>>], err |-> ErrConn,
              total |-> Inc(dbQueryTotal, <<"select_all", "books", "error">>),
              duration |-> Inc(dbQueryDuration, <<"select_all", "books">>)]
        ELSE [books |-> result, err |-> NoError,
              total |-> Inc(dbQueryTotal, <<"select_all", "books", "success">>),
              duration |-> Inc(dbQueryDuration, <<"select_all", "books">>)]

\* BookRepository.UpdateBook, the overlay: a field of the request that is
\* not nil replaces the field of the book that was read
Overlay(existing, req) ==
    [existing EXCEPT
       !.Title = IF Present(req.Title) THEN Value(req.Title) ELSE @,
       !.Author = IF Present(req.Author) THEN Value(req.Author) ELSE @,
       !.ISBN = IF Present(req.ISBN) THEN Value(req.ISBN) ELSE @,
       !.Price = IF Present(req.Price) THEN Value(req.Price) ELSE @,
       !.PublishedAt =
           IF Present(req.PublishedAt) THEN Value(req.PublishedAt) ELSE @]

\* BookRepository.UpdateBook: if err != nil { return nil, err } after the read
UpdateBook_readFailed_Ignored(err) == FALSE

UpdateBook_readFailed(err) == err # NoError

\* BookRepository.UpdateBook: existing.UpdatedAt = time.Now()
UpdateBook_stamp_Forgotten(existing, now) == existing

UpdateBook_stamp(existing, now) == [existing EXCEPT !.UpdatedAt = now]

\* INSERT arguments with the zero time for updated_at
InsertArgs_UpdatedAtUnset(req, now) ==
    [title |-> req.Title, author |-> req.Author, isbn |-> req.ISBN,
     price |-> req.Price, published_at |-> req.PublishedAt,
     created_at |-> now, updated_at |-> ZeroTime]

\* the arguments of the INSERT and of the UPDATE
InsertArgs(req, now) ==
    [title |-> req.Title, author |-> req.Author, isbn |-> req.ISBN,
     price |-> req.Price, published_at |-> req.PublishedAt,
     created_at |-> now, updated_at |-> now]

\* UPDATE arguments with title and author in each other's place
UpdateArgs_Swapped(existing) ==
    [title |-> existing.Author, author |-> existing.Title,
     isbn |-> existing.ISBN, price |-> existing.Price,
     published_at |-> existing.PublishedAt,
     updated_at |-> existing.UpdatedAt]

UpdateArgs(existing) ==
    [title |-> existing.Title, author |-> existing.Author,
     isbn |-> existing.ISBN, price |-> existing.Price,
     published_at |-> existing.PublishedAt,
     updated_at |-> existing.UpdatedAt]

\* BookRepository.DeleteBook: the DELETE, its counter and its histogram
BookRepository_DeleteBook(id, fault) ==
    LET r == Delete(books, id)
        status == IF fault THEN "error"
                  ELSE IF r.rowsAffected = 0 THEN "not_found" ELSE "success"
    IN  [err |-> IF fault THEN ErrConn
                 ELSE IF r.rowsAffected = 0 THEN ErrBookNotFound ELSE NoError,
         tbl |-> IF fault THEN books ELSE r.tbl,
         total |-> Inc(dbQueryTotal, <<"delete", "books", status>>),
         duration |-> Inc(dbQueryDuration, <<"delete", "books">>)]

\* -------------------------------------------------------------- load tester

\* the worker goroutines main starts: two of the `concurrency` it asks for
Goroutines == {"g1", "g2"}

\* a worker between two operations
IdleGoroutine == [pc |-> "idle", bookID |-> 0]

\* the slice without the first occurrence of id, as removeBookID leaves it
removeBookID(ids, id) ==
    IF \E i \in 1..Len(ids) : ids[i] = id
    THEN LET i == CHOOSE i \in 1..Len(ids) :
                    ids[i] = id /\ \A j \in 1..(i - 1) : ids[j] # id
         IN  SubSeq(ids, 1, i - 1) \o SubSeq(ids, i + 1, Len(ids))
    ELSE ids

\* ---------------------------------------------------------------- requests

\* the routes main registers for the book handlers
Routes ==
    {<<"POST", "/api/v1/books">>, <<"GET", "/api/v1/books">>,
     <<"GET", "/api/v1/books/:id">>, <<"PUT", "/api/v1/books/:id">>,
     <<"DELETE", "/api/v1/books/:id">>}

\* the :id parameters requests carry
PathParams ==
    {<<"1">>, <<"2">>, <<"1", "2">>, <<"-", "1">>, <<"x", "1">>, <<>>}

LongTitle == Repeat("x", TitleLen + 1)

\* published_at values: one written in UTC, one with a zone offset
TimeUTC == [wall |-> 3, off |-> 0]
TimeOffset == [wall |-> 3, off |-> 1]
TimeLater == [wall |-> 5, off |-> 1]

MalformedBody ==
    [wellformed |-> FALSE, title |-> {}, author |-> {}, isbn |-> {},
     price |-> {}, published_at |-> {}]

\* the JSON bodies POST /api/v1/books receives
CreateBodies ==
    {MalformedBody} \cup
    [wellformed : {TRUE},
     title : {{}, {"Clean Code"}, {LongTitle}},
     author : {{}, {"Robert C. Martin"}},
     isbn : {{}, {ISBNCleanCode}, {ISBNGoLanguage}, {ISBNSuffixed}},
     price : {{}, {-1000}, {0}, {9990}, {19999}},
     published_at : {{}, {TimeUTC}, {TimeOffset}}]

\* the JSON bodies PUT /api/v1/books/:id receives
UpdateBodies ==
    {MalformedBody} \cup
    [wellformed : {TRUE},
     title : {{}, {"Refactoring"}},
     author : {{}, {"Martin Fowler"}},
     isbn : {{}, {ISBNGoLanguage}, {ISBNSuffixed}},
     price : {{}, {-1000}, {49995}},
     published_at : {{}, {TimeLater}}]

\* a few of each, for the longer runs
FewCreateBodies ==
    {b \in CreateBodies :
       /\ b.title = {"Clean Code"} /\ b.author = {"Robert C. Martin"}
       /\ b.isbn \in {{ISBNCleanCode}, {ISBNGoLanguage}}
       /\ b.price \in {{0}, {9990}} /\ b.published_at = {TimeUTC}}

FewUpdateBodies ==
    {b \in UpdateBodies :
       /\ b.title = {} /\ b.author = {} /\ b.published_at = {}
       /\ b.isbn \in {{}, {ISBNGoLanguage}} /\ b.price \in {{}, {49995}}}

FewPathParams == {<<"1">>, <<"2">>, <<"x", "1">>}

\* for requests that run two at a time: Creates of two ISBNs, Updates that
\* set one field each
ConcurrentCreateBodies == {b \in FewCreateBodies : b.price = {9990}}

ConcurrentUpdateBodies ==
    {b \in UpdateBodies :
       /\ b.wellformed /\ b.author = {} /\ b.published_at = {}
       /\ b.isbn \in {{}, {ISBNGoLanguage}} /\ b.price \in {{}, {49995}}
       /\ (IF Present(b.title) THEN 1 ELSE 0)
            + (IF Present(b.isbn) THEN 1 ELSE 0)
            + (IF Present(b.price) THEN 1 ELSE 0) = 1}

ConcurrentPathParams == {<<"1">>, <<"2">>}

\* c.JSON(status, body): the response is written
ErrorBody(msg) == [kind |-> "error", error |-> msg]
BookBody(book) == [kind |-> "book", book |-> book]
BooksBody(list) == [kind |-> "books", books |-> list]
NilBody == [kind |-> "nil"]

JSON(c, status, body) ==
    [c EXCEPT !.pc = "written", !.status = status, !.body = body]

\* var req models.CreateBookRequest
ZeroRequest ==
    [Title |-> "", Author |-> "", ISBN |-> "", Price |-> 0,
     PublishedAt |-> ZeroTime]

\* var req models.UpdateBookRequest: every pointer nil
ZeroUpdateRequest ==
    [Title |-> {}, Author |-> {}, ISBN |-> {}, Price |-> {},
     PublishedAt |-> {}]

\* a worker with no request; the locals of the handler and of the
\* repository method it calls are id, req, now and existing
IdleCtx ==
    [pc |-> "idle", method |-> "", fullPath |-> "", status |-> 0,
     body |-> NilBody, id |-> 0, req |-> ZeroRequest, now |-> ZeroTime,
     existing |-> ZeroBook]

\* requests that have entered the middleware
Entered == httpRequestsInFlight + Total(httpRequestsTotal) + recovered

\* ------------------------------------------------------------------ actions

\* the service starts on an empty table, with the workers W to serve
\* requests
InitOver(W) ==
    /\ books = <<>>
    /\ books_id_seq = 1
    /\ clock = 1
    /\ ctx = [w \in W |-> IdleCtx]
    /\ httpRequestsInFlight = 0
    /\ httpRequestsTotal = <<>>
    /\ dbQueryTotal = <<>>
    /\ dbQueryDuration = <<>>
    /\ deleted = {}
    /\ recovered = 0
    /\ createdBookIDs = <<>>
    /\ goroutines = [g \in Goroutines |-> IdleGoroutine]

\* the router has handed w's request to the handler of (method, path)
Handling(w, method, path) ==
    /\ ctx[w].pc = "handler"
    /\ ctx[w].method = method
    /\ ctx[w].fullPath = path

\* PrometheusMiddleware up to c.Next(): the gauge goes up and the request is
\* handed to the handler of its route (n bounds the requests of a run)
PrometheusMiddleware_enter(w, route, n) ==
    /\ ctx[w].pc = "idle"
    /\ Entered < n
    /\ httpRequestsInFlight' = httpRequestsInFlight + 1
    /\ ctx' = [ctx EXCEPT ![w] =
                 [IdleCtx EXCEPT !.pc = "handler", !.method = route[1],
                                 !.fullPath = route[2], !.status = StatusOK,
                                 !.req = IF route[1] = "PUT"
                                         THEN ZeroUpdateRequest
                                         ELSE ZeroRequest]]
    /\ UNCHANGED <<books, books_id_seq, clock, httpRequestsTotal,
                   dbQueryTotal, dbQueryDuration, deleted,
                   recovered,
                   createdBookIDs, goroutines>>

\* a middleware that returns after c.Next() when the status is an error
PrometheusMiddleware_exit_ErrorsUncounted(w) ==
    /\ ctx[w].pc = "written"
    /\ httpRequestsTotal' =
           IF ctx[w].status >= StatusBadRequest THEN httpRequestsTotal
           ELSE Inc(httpRequestsTotal,
                    <<ctx[w].method, ctx[w].fullPath, ctx[w].status>>)
    /\ httpRequestsInFlight' = httpRequestsInFlight - 1
    /\ ctx' = [ctx EXCEPT ![w] = IdleCtx]
    /\ UNCHANGED <<books, books_id_seq, clock, dbQueryTotal,
                   dbQueryDuration, deleted, recovered,
                   createdBookIDs, goroutines>>

\* a middleware that labels with c.Request.URL.Path, the path as requested
PrometheusMiddleware_exit_RawPath(w) ==
    /\ ctx[w].pc = "written"
    /\ httpRequestsTotal' =
           Inc(httpRequestsTotal,
               <<ctx[w].method,
                 IF ctx[w].fullPath = "/api/v1/books/:id"
                 THEN "/api/v1/books/" \o ToString(ctx[w].id)
                 ELSE ctx[w].fullPath,
                 ctx[w].status>>)
    /\ httpRequestsInFlight' = httpRequestsInFlight - 1
    /\ ctx' = [ctx EXCEPT ![w] = IdleCtx]
    /\ UNCHANGED <<books, books_id_seq, clock, dbQueryTotal,
                   dbQueryDuration, deleted, recovered,
                   createdBookIDs, goroutines>>

\* PrometheusMiddleware after c.Next(): the request is counted under its
\* method, route template and status, and the deferred Dec runs
PrometheusMiddleware_exit(w) ==
    /\ ctx[w].pc = "written"
    /\ httpRequestsTotal' =
           Inc(httpRequestsTotal,
               <<ctx[w].method, ctx[w].fullPath, ctx[w].status>>)
    /\ httpRequestsInFlight' = httpRequestsInFlight - 1
    /\ ctx' = [ctx EXCEPT ![w] = IdleCtx]
    /\ UNCHANGED <<books, books_id_seq, clock, dbQueryTotal,
                   dbQueryDuration, deleted,
                   recovered,
                   createdBookIDs, goroutines>>

\* a middleware whose Dec is not deferred: a panic skips it
PrometheusMiddleware_panic_DecSkipped(w) ==
    /\ ctx[w].pc \in {"handler", "insert", "stamp", "update"}
    /\ recovered' = recovered + 1
    /\ ctx' = [ctx EXCEPT ![w] = IdleCtx]
    /\ UNCHANGED <<books, books_id_seq, clock, httpRequestsInFlight,
                   httpRequestsTotal, dbQueryTotal, dbQueryDuration, deleted,
                   createdBookIDs, goroutines>>

\* PrometheusMiddleware when the handler panics inside c.Next(): the panic
\* passes through the middleware to gin's Recovery; only the deferred Dec
\* runs, the request is not counted in http_requests_total
PrometheusMiddleware_panic(w) ==
    /\ ctx[w].pc \in {"handler", "insert", "stamp", "update"}
    /\ httpRequestsInFlight' = httpRequestsInFlight - 1
    /\ recovered' = recovered + 1
    /\ ctx' = [ctx EXCEPT ![w] = IdleCtx]
    /\ UNCHANGED <<books, books_id_seq, clock, httpRequestsTotal,
                   dbQueryTotal, dbQueryDuration, deleted,
                   createdBookIDs, goroutines>>

\* BookHandler.CreateBook up to the INSERT: the body is bound and validated,
\* and BookRepository.CreateBook reads the clock
BookHandler_CreateBook(w, json) ==
    /\ Handling(w, "POST", "/api/v1/books")
    /\ ctx' = [ctx EXCEPT ![w] =
                 IF ~ShouldBindCreate(json)
                 THEN JSON(@, StatusBadRequest, ErrorBody("invalid request body"))
                 ELSE [@ EXCEPT !.pc = "insert", !.req = DecodeCreate(json),
                                !.now = Now]]
    /\ UNCHANGED <<books, books_id_seq, clock, httpRequestsInFlight,
                   httpRequestsTotal, dbQueryTotal, dbQueryDuration, deleted,
                   recovered,
                   createdBookIDs, goroutines>>

\* BookRepository.CreateBook from the INSERT on, and the handler's response
BookRepository_CreateBook(w, fault) ==
    /\ ctx[w].pc = "insert"
    /\ books_id_seq <= MaxID
    /\ \E r \in IF fault
                THEN {[err |-> ErrConn, tbl |-> books, seq |-> books_id_seq,
                       row |-> ZeroRow]}
                ELSE Insert(books, books_id_seq,
                            InsertArgs(ctx[w].req, ctx[w].now)) :
         /\ books' = r.tbl
         /\ books_id_seq' = r.seq
         /\ dbQueryTotal' =
                Inc(dbQueryTotal,
                    <<"create", "books",
                      IF r.err # NoError THEN "error" ELSE "success">>)
         /\ ctx' = [ctx EXCEPT ![w] =
                      IF r.err # NoError
                      THEN JSON(@, StatusInternalServerError,
                                ErrorBody("Failed to create book"))
                      ELSE JSON(@, StatusCreated, BookBody(Scan(r.row)))]
    /\ dbQueryDuration' = Inc(dbQueryDuration, <<"create", "books">>)
    /\ clock' = clock + 1
    /\ UNCHANGED <<httpRequestsInFlight, httpRequestsTotal, deleted,
                   recovered,
                   createdBookIDs, goroutines>>

\* a GetBookByID that calls the repository before it looks at Atoi's error
BookHandler_GetBookByID_ReadsFirst(w, idStr, fault) ==
    /\ Handling(w, "GET", "/api/v1/books/:id")
    /\ LET a == Atoi(idStr)
           r == BookRepository_GetBookByID(a.val, fault)
       IN  /\ ctx' = [ctx EXCEPT ![w] =
                        IF a.err
                        THEN JSON(@, StatusBadRequest,
                                  ErrorBody("Invalid book ID"))
                        ELSE IF r.err # NoError
                        THEN JSON([@ EXCEPT !.id = a.val], StatusNotFound,
                                  ErrorBody("Book not found"))
                        ELSE JSON([@ EXCEPT !.id = a.val], StatusOK,
                                  BookBody(r.book))]
           /\ dbQueryTotal' = r.total
           /\ dbQueryDuration' = r.duration
           /\ clock' = clock + 1
    /\ UNCHANGED <<books, books_id_seq, httpRequestsInFlight,
                   httpRequestsTotal, deleted,
                   recovered,
                   createdBookIDs, goroutines>>

\* BookHandler.GetBookByID
BookHandler_GetBookByID(w, idStr, fault) ==
    /\ Handling(w, "GET", "/api/v1/books/:id")
    /\ LET a == Atoi(idStr)
           r == BookRepository_GetBookByID(a.val, fault)
       IN  IF a.err
           THEN /\ ctx' = [ctx EXCEPT ![w] =
                             JSON(@, StatusBadRequest,
                                  ErrorBody("Invalid book ID"))]
                /\ UNCHANGED <<clock, dbQueryTotal, dbQueryDuration>>
           ELSE /\ ctx' = [ctx EXCEPT ![w] =
                             IF r.err # NoError
                             THEN JSON([@ EXCEPT !.id = a.val], StatusNotFound,
                                       ErrorBody("Book not found"))
                             ELSE JSON([@ EXCEPT !.id = a.val], StatusOK,
                                       BookBody(r.book))]
                /\ dbQueryTotal' = r.total
                /\ dbQueryDuration' = r.duration
                /\ clock' = clock + 1
    /\ UNCHANGED <<books, books_id_seq, httpRequestsInFlight,
                   httpRequestsTotal, deleted,
                   recovered,
                   createdBookIDs, goroutines>>

\* BookHandler.GetAllBooks
BookHandler_GetAllBooks(w, fault) ==
    /\ Handling(w, "GET", "/api/v1/books")
    /\ \E rows \in SelectAll(books) :
         LET r == BookRepository_GetAllBooks(rows, fault)
         IN  /\ ctx' = [ctx EXCEPT ![w] =
                          IF r.err # NoError
                          THEN JSON(@, StatusInternalServerError,
                                    ErrorBody("Failed to retrieve books"))
                          ELSE JSON(@, StatusOK, BooksBody(r.books))]
             /\ dbQueryTotal' = r.total
             /\ dbQueryDuration' = r.duration
    /\ clock' = clock + 1
    /\ UNCHANGED <<books, books_id_seq, httpRequestsInFlight,
                   httpRequestsTotal, deleted,
                   recovered,
                   createdBookIDs, goroutines>>

\* BookHandler.UpdateBook up to the UPDATE: the id and the body are parsed,
\* BookRepository.UpdateBook reads the book and overlays the request on it
BookHandler_UpdateBook(w, idStr, json, fault) ==
    /\ Handling(w, "PUT", "/api/v1/books/:id")
    /\ LET a == Atoi(idStr)
           req == DecodeUpdate(json)
           r == BookRepository_GetBookByID(a.val, fault)
       IN  IF a.err
           THEN /\ ctx' = [ctx EXCEPT ![w] =
                             JSON(@, StatusBadRequest,
                                  ErrorBody("Invalid book ID"))]
                /\ UNCHANGED <<clock, dbQueryTotal, dbQueryDuration>>
           ELSE IF ~ShouldBindUpdate(json)
           THEN /\ ctx' = [ctx EXCEPT ![w] =
                             JSON([@ EXCEPT !.id = a.val], StatusBadRequest,
                                  ErrorBody("invalid request body"))]
                /\ UNCHANGED <<clock, dbQueryTotal, dbQueryDuration>>
           ELSE IF UpdateBook_readFailed(r.err)
           THEN /\ ctx' = [ctx EXCEPT ![w] =
                             JSON([@ EXCEPT !.id = a.val, !.req = req],
                                  StatusNotFound, ErrorBody("Book not found"))]
                /\ dbQueryTotal' = r.total
                /\ dbQueryDuration' = Inc(r.duration, <<"update", "books">>)
                /\ clock' = clock + 1
           ELSE /\ ctx' = [ctx EXCEPT ![w] =
                             [@ EXCEPT !.pc = "stamp", !.id = a.val,
                                       !.req = req,
                                       !.existing = Overlay(r.book, req)]]
                /\ dbQueryTotal' = r.total
                /\ dbQueryDuration' = r.duration
                /\ clock' = clock + 1
    /\ UNCHANGED <<books, books_id_seq, httpRequestsInFlight,
                   httpRequestsTotal, deleted,
                   recovered,
                   createdBookIDs, goroutines>>

\* BookRepository.UpdateBook: existing.UpdatedAt = time.Now()
BookRepository_UpdateBook_stamp(w) ==
    /\ ctx[w].pc = "stamp"
    /\ ctx' = [ctx EXCEPT ![w] =
                 [@ EXCEPT !.pc = "update",
                           !.existing = UpdateBook_stamp(@, Now)]]
    /\ UNCHANGED <<books, books_id_seq, clock, httpRequestsInFlight,
                   httpRequestsTotal, dbQueryTotal, dbQueryDuration, deleted,
                   recovered,
                   createdBookIDs, goroutines>>

\* BookRepository.UpdateBook from the UPDATE on, and the handler's response
BookRepository_UpdateBook(w, fault) ==
    /\ ctx[w].pc = "update"
    /\ LET r == IF fault
                THEN [err |-> ErrConn, tbl |-> books, row |-> ZeroRow]
                ELSE Update(books, ctx[w].id, UpdateArgs(ctx[w].existing))
       IN  /\ books' = r.tbl
           /\ dbQueryTotal' =
                  Inc(dbQueryTotal,
                      <<"update", "books",
                        IF r.err # NoError THEN "error" ELSE "success">>)
           /\ ctx' = [ctx EXCEPT ![w] =
                        IF r.err # NoError
                        THEN JSON(@, StatusNotFound,
                                  ErrorBody("Book not found"))
                        ELSE JSON(@, StatusOK, BookBody(Scan(r.row)))]
    /\ dbQueryDuration' = Inc(dbQueryDuration, <<"update", "books">>)
    /\ clock' = clock + 1
    /\ UNCHANGED <<books_id_seq, httpRequestsInFlight, httpRequestsTotal,
                   deleted,
                   recovered,
                   createdBookIDs, goroutines>>

\* BookHandler.DeleteBook
BookHandler_DeleteBook(w, idStr, fault) ==
    /\ Handling(w, "DELETE", "/api/v1/books/:id")
    /\ LET a == Atoi(idStr)
           r == BookRepository_DeleteBook(a.val, fault)
       IN  IF a.err
           THEN /\ ctx' = [ctx EXCEPT ![w] =
                             JSON(@, StatusBadRequest,
                                  ErrorBody("Invalid book ID"))]
                /\ UNCHANGED <<books, clock, dbQueryTotal, dbQueryDuration,
                               deleted>>
           ELSE /\ ctx' = [ctx EXCEPT ![w] =
                             IF r.err # NoError
                             THEN JSON([@ EXCEPT !.id = a.val], StatusNotFound,
                                       ErrorBody("Book not found"))
                             ELSE JSON([@ EXCEPT !.id = a.val],
                                       StatusNoContent, NilBody)]
                /\ books' = r.tbl
                /\ deleted' = IF r.err = NoError THEN deleted \cup {a.val}
                              ELSE deleted
                /\ dbQueryTotal' = r.total
                /\ dbQueryDuration' = r.duration
                /\ clock' = clock + 1
    /\ UNCHANGED <<books_id_seq, httpRequestsInFlight, httpRequestsTotal,
                   recovered,
                   createdBookIDs, goroutines>>

\* at most n requests of the workers W, with the bodies C and U and the :id
\* parameters P, the store failing a statement when F allows it
NextOver(W, F, C, U, P, n) ==
    \/ \E w \in W, route \in Routes : PrometheusMiddleware_enter(w, route, n)
    \/ \E w \in W :
         /\ Handling(w, "POST", "/api/v1/books")
         /\ \E json \in C : BookHandler_CreateBook(w, json)
    \/ \E w \in W, fault \in F : BookRepository_CreateBook(w, fault)
    \/ \E w \in W :
         /\ Handling(w, "GET", "/api/v1/books/:id")
         /\ \E idStr \in P, fault \in F :
              BookHandler_GetBookByID(w, idStr, fault)
    \/ \E w \in W, fault \in F : BookHandler_GetAllBooks(w, fault)
    \/ \E w \in W :
         /\ Handling(w, "PUT", "/api/v1/books/:id")
         /\ \E idStr \in P, json \in U, fault \in F :
              BookHandler_UpdateBook(w, idStr, json, fault)
    \/ \E w \in W : BookRepository_UpdateBook_stamp(w)
    \/ \E w \in W, fault \in F : BookRepository_UpdateBook(w, fault)
    \/ \E w \in W :
         /\ Handling(w, "DELETE", "/api/v1/books/:id")
         /\ \E idStr \in P, fault \in F :
              BookHandler_DeleteBook(w, idStr, fault)
    \/ \E w \in W : PrometheusMiddleware_exit(w)

Init == InitOver({"w1"})

\* one request at a time, the store answering every statement
Next ==
    NextOver({"w1"}, {FALSE}, CreateBodies, UpdateBodies, PathParams,
             MaxRequests)

Spec == Init /\ [][Next]_vars

\* one request at a time, the store failing statements at will: longer runs
\* of fewer kinds of request
NextFaults ==
    NextOver({"w1"}, BOOLEAN, FewCreateBodies, FewUpdateBodies, FewPathParams,
             MaxRequestsLong)

SpecFaults == Init /\ [][NextFaults]_vars

\* two requests at a time, their store statements interleaved
InitConcurrent == InitOver({"w1", "w2"})

NextConcurrent ==
    NextOver({"w1", "w2"}, {FALSE}, ConcurrentCreateBodies,
             ConcurrentUpdateBodies, ConcurrentPathParams,
             MaxRequestsConcurrent)

SpecConcurrent == InitConcurrent /\ [][NextConcurrent]_vars

\* two requests at a time, a handler panicking at will
NextPanics ==
    \/ NextConcurrent
    \/ \E w \in {"w1", "w2"} : PrometheusMiddleware_panic(w)

SpecPanics == InitConcurrent /\ [][NextPanics]_vars

\* the server's part of the load tester's steps is what it answers; its
\* requests, table and metrics are not followed
ServerUntouched ==
    UNCHANGED <<books, clock, ctx, httpRequestsInFlight, httpRequestsTotal,
                dbQueryTotal, dbQueryDuration, recovered>>

\* createBook answered 201: the id the server gave is appended (a create
\* answered otherwise tracks nothing); readBook and updateBook call it when
\* no id is tracked
createBook(g) ==
    /\ goroutines[g].pc = "idle"
    /\ books_id_seq <= MaxBookIDs
    /\ createdBookIDs' = Append(createdBookIDs, books_id_seq)
    /\ books_id_seq' = books_id_seq + 1
    /\ ServerUntouched
    /\ UNCHANGED <<deleted, goroutines>>

\* updateBook: bookID := getRandomBookID()
updateBook_getRandomBookID(g) ==
    /\ goroutines[g].pc = "idle"
    /\ \E idx \in 1..Len(createdBookIDs) :
         goroutines' = [goroutines EXCEPT ![g] =
                          [pc |-> "updateDo", bookID |-> createdBookIDs[idx]]]
    /\ ServerUntouched
    /\ UNCHANGED <<books_id_seq, deleted, createdBookIDs>>

\* updateBook: the PUT and its answer, 404 for a deleted book; failed says
\* that the request failed or was answered with another error
updateBook_Do(g, failed) ==
    /\ goroutines[g].pc = "updateDo"
    /\ goroutines' = [goroutines EXCEPT ![g] =
                        IF ~failed /\ goroutines[g].bookID \in deleted
                        THEN [@ EXCEPT !.pc = "updateRemove"]
                        ELSE IdleGoroutine]
    /\ ServerUntouched
    /\ UNCHANGED <<books_id_seq, deleted, createdBookIDs>>

\* updateBook answered 404: removeBookID(bookID)
updateBook_removeBookID(g) ==
    /\ goroutines[g].pc = "updateRemove"
    /\ createdBookIDs' = removeBookID(createdBookIDs, goroutines[g].bookID)
    /\ goroutines' = [goroutines EXCEPT ![g] = IdleGoroutine]
    /\ ServerUntouched
    /\ UNCHANGED <<books_id_seq, deleted>>

\* deleteBook: bookID := getRandomBookID()
deleteBook_getRandomBookID(g) ==
    /\ goroutines[g].pc = "idle"
    /\ \E idx \in 1..Len(createdBookIDs) :
         goroutines' = [goroutines EXCEPT ![g] =
                          [pc |-> "deleteCount",
                           bookID |-> createdBookIDs[idx]]]
    /\ ServerUntouched
    /\ UNCHANGED <<books_id_seq, deleted, createdBookIDs>>

\* deleteBook: if getBookCount() <= 5 { return }
deleteBook_getBookCount(g) ==
    /\ goroutines[g].pc = "deleteCount"
    /\ goroutines' = [goroutines EXCEPT ![g] =
                        IF Len(createdBookIDs) <= MinInventory
                        THEN IdleGoroutine
                        ELSE [@ EXCEPT !.pc = "deleteDo"]]
    /\ ServerUntouched
    /\ UNCHANGED <<books_id_seq, deleted, createdBookIDs>>

\* deleteBook: the DELETE and its answer, 204 for a live book and 404 for a
\* deleted one; failed says that the request failed or was answered with
\* another error
deleteBook_Do(g, failed) ==
    /\ goroutines[g].pc = "deleteDo"
    /\ goroutines' = [goroutines EXCEPT ![g] =
                        IF failed THEN IdleGoroutine
                        ELSE [@ EXCEPT !.pc = "deleteRemove"]]
    /\ deleted' = IF failed THEN deleted
                  ELSE deleted \cup {goroutines[g].bookID}
    /\ ServerUntouched
    /\ UNCHANGED <<books_id_seq, createdBookIDs>>

\* deleteBook answered 204 or 404: removeBookID(bookID)
deleteBook_removeBookID(g) ==
    /\ goroutines[g].pc = "deleteRemove"
    /\ createdBookIDs' = removeBookID(createdBookIDs, goroutines[g].bookID)
    /\ goroutines' = [goroutines EXCEPT ![g] = IdleGoroutine]
    /\ ServerUntouched
    /\ UNCHANGED <<books_id_seq, deleted>>

\* the load tester's workers against a server that gives fresh ids
NextLoadTest ==
    \/ \E g \in Goroutines : createBook(g)
    \/ \E g \in Goroutines : updateBook_getRandomBookID(g)
    \/ \E g \in Goroutines, failed \in BOOLEAN : updateBook_Do(g, failed)
    \/ \E g \in Goroutines : updateBook_removeBookID(g)
    \/ \E g \in Goroutines : deleteBook_getRandomBookID(g)
    \/ \E g \in Goroutines : deleteBook_getBookCount(g)
    \/ \E g \in Goroutines, failed \in BOOLEAN : deleteBook_Do(g, failed)
    \/ \E g \in Goroutines : deleteBook_removeBookID(g)

SpecLoadTest == Init /\ [][NextLoadTest]_vars

\* ------------------------------------------------------------------- claims

\* some live item holds the ISBN
Held(isbn) == \E i \in DOMAIN books : books[i].isbn = isbn

\* what a Create response carries of its request, the times compared as
\* instants
EchoesRequest(b, r) ==
    /\ b.Title = r.Title
    /\ b.Author = r.Author
    /\ b.ISBN = r.ISBN
    /\ b.Price = r.Price
    /\ Instant(b.PublishedAt) = Instant(r.PublishedAt)

\* C1: every Create request that passed validation and whose ISBN no live
\* item holds is answered 201 with an item of positive id, created-at equal
\* to updated-at, and the title, author, ISBN, price and published-at of the
\* request.
C1_CreateEchoesRequest ==
    [][\A w \in DOMAIN ctx :
         (/\ BookRepository_CreateBook(w, FALSE)
          /\ ~Held(ctx[w].req.ISBN))
         => /\ ctx'[w].status = StatusCreated
            /\ ctx'[w].body.kind = "book"
            /\ ctx'[w].body.book.ID > 0
            /\ ctx'[w].body.book.CreatedAt = ctx'[w].body.book.UpdatedAt
            /\ EchoesRequest(ctx'[w].body.book, ctx[w].req)]_vars

\* the item after an Update, field by field: the request's value where the
\* request has the field, the value before where it has not
OverlaysRequest(after, before, req) ==
    /\ after.Title = IF Present(req.Title) THEN Value(req.Title)
                     ELSE before.Title
    /\ after.Author = IF Present(req.Author) THEN Value(req.Author)
                      ELSE before.Author
    /\ after.ISBN = IF Present(req.ISBN) THEN Value(req.ISBN) ELSE before.ISBN
    /\ after.Price = IF Present(req.Price) THEN Value(req.Price)
                     ELSE before.Price
    /\ Instant(after.PublishedAt) =
           Instant(IF Present(req.PublishedAt) THEN Value(req.PublishedAt)
                   ELSE before.PublishedAt)

\* C2: after a successful Update of a live item the item stored and returned
\* has every field the request carries equal to the request's value and
\* every other updatable field equal to its value before the Update, and
\* its updated-at has changed.
C2_UpdateOverlaysPresentFields ==
    [][\A w \in DOMAIN ctx :
         (/\ BookRepository_UpdateBook(w, FALSE)
          /\ ctx[w].id \in DOMAIN books
          /\ ctx'[w].status = StatusOK)
         => LET before == Scan(books[ctx[w].id])
                stored == Scan(books'[ctx[w].id])
            IN  /\ ctx'[w].body = BookBody(stored)
                /\ OverlaysRequest(stored, before, ctx[w].req)
                /\ stored.UpdatedAt # before.UpdatedAt]_vars

\* a partial with no field set
EmptyPartial ==
    [wellformed |-> TRUE, title |-> {}, author |-> {}, isbn |-> {},
     price |-> {}, published_at |-> {}]

NothingSet(req) ==
    /\ ~Present(req.Title) /\ ~Present(req.Author) /\ ~Present(req.ISBN)
    /\ ~Present(req.Price) /\ ~Present(req.PublishedAt)

\* C3: an Update of a live item whose partial has no field set goes on to
\* the write and is answered 200; the stored title, author, ISBN, price and
\* published-at are what they were, and the stored updated-at is strictly
\* later than it was.
C3_EmptyUpdateAdvancesUpdatedAt ==
    [][\A w \in DOMAIN ctx :
         /\ Handling(w, "PUT", "/api/v1/books/:id")
            => \A idStr \in PathParams :
                 (/\ ~Atoi(idStr).err
                  /\ Atoi(idStr).val \in DOMAIN books
                  /\ BookHandler_UpdateBook(w, idStr, EmptyPartial, FALSE))
                 => ctx'[w].pc = "stamp"
         /\ (/\ BookRepository_UpdateBook(w, FALSE)
             /\ NothingSet(ctx[w].req)
             /\ ctx[w].id \in DOMAIN books)
            => /\ ctx'[w].status = StatusOK
               /\ ctx'[w].id \in DOMAIN books'
               /\ LET before == books[ctx[w].id]
                      after == books'[ctx[w].id]
                  IN  /\ after.title = before.title
                      /\ after.author = before.author
                      /\ after.isbn = before.isbn
                      /\ after.price = before.price
                      /\ after.published_at = before.published_at
                      /\ after.updated_at > before.updated_at]_vars

\* an empty Update of a live item has been answered 200 and the item's
\* updated-at is past its created-at
C3_Witness ==
    \E w \in DOMAIN ctx :
      /\ ctx[w].pc = "written"
      /\ ctx[w].method = "PUT"
      /\ ctx[w].status = StatusOK
      /\ NothingSet(ctx[w].req)
      /\ ctx[w].id \in DOMAIN books
      /\ books[ctx[w].id].updated_at > books[ctx[w].id].created_at

\* C4: once a Delete of an id was answered 204, every Get-by-ID and every
\* Delete of that id is answered 404, whatever requests came in between.
C4_DeletedStaysNotFound ==
    [][\A w \in DOMAIN ctx : \A idStr \in PathParams :
         (~Atoi(idStr).err /\ Atoi(idStr).val \in deleted)
         => \A fault \in BOOLEAN :
              /\ BookHandler_GetBookByID(w, idStr, fault)
                 => ctx'[w].status = StatusNotFound
              /\ BookHandler_DeleteBook(w, idStr, fault)
                 => ctx'[w].status = StatusNotFound]_vars

\* a Get-by-ID of a deleted id has been answered 404 while another item,
\* created after the Delete, is live
C4_Witness ==
    \E w \in DOMAIN ctx :
      /\ ctx[w].pc = "written"
      /\ ctx[w].method = "GET"
      /\ ctx[w].fullPath = "/api/v1/books/:id"
      /\ ctx[w].id \in deleted
      /\ ctx[w].status = StatusNotFound
      /\ \E i \in DOMAIN books : i > ctx[w].id

\* C5: a Get-by-ID with an integer id is answered 404 when the id has no
\* live item (it was never assigned or it was deleted), and 200 with the
\* stored item when the id is live and the store answers the read.
C5_GetByID ==
    [][\A w \in DOMAIN ctx :
         Handling(w, "GET", "/api/v1/books/:id")
         => \A idStr \in PathParams, fault \in BOOLEAN :
              (~Atoi(idStr).err /\ BookHandler_GetBookByID(w, idStr, fault))
              => LET id == Atoi(idStr).val
                 IN  /\ (id \notin DOMAIN books \/ id \in deleted)
                        => ctx'[w].status = StatusNotFound
                     /\ (id \in DOMAIN books /\ ~fault)
                        => /\ ctx'[w].status = StatusOK
                           /\ ctx'[w].body = BookBody(Scan(books[id]))]_vars

\* a Get-by-ID of a live id has been answered 200 with the stored item,
\* after some other id was deleted
C5_Witness ==
    \E w \in DOMAIN ctx :
      /\ ctx[w].pc = "written"
      /\ ctx[w].method = "GET"
      /\ ctx[w].fullPath = "/api/v1/books/:id"
      /\ ctx[w].status = StatusOK
      /\ ctx[w].id \in DOMAIN books
      /\ ctx[w].body = BookBody(Scan(books[ctx[w].id]))
      /\ deleted # {}

\* C6: a Create whose ISBN a live item holds is answered 500; no item is
\* added and every item, the holder of the ISBN among them, is stored as it
\* was.
C6_DuplicateISBNRefused ==
    [][\A w \in DOMAIN ctx :
         (/\ BookRepository_CreateBook(w, FALSE)
          /\ Held(ctx[w].req.ISBN))
         => /\ ctx'[w].status = StatusInternalServerError
            /\ books' = books]_vars

\* a Create has been answered 500 and a live item holds its ISBN
C6_Witness ==
    \E w \in DOMAIN ctx :
      /\ ctx[w].pc = "written"
      /\ ctx[w].method = "POST"
      /\ ctx[w].status = StatusInternalServerError
      /\ Held(ctx[w].req.ISBN)
      /\ Cardinality(DOMAIN books) = 1

\* C7: a Get-all of a table with no row, the store answering, is answered
\* 200 with an empty list, not with a nil one.
C7_GetAllOnEmpty ==
    [][\A w \in DOMAIN ctx :
         (BookHandler_GetAllBooks(w, FALSE) /\ DOMAIN books = {})
         => /\ ctx'[w].status = StatusOK
            /\ ctx'[w].body.kind = "books"
            /\ ~ctx'[w].body.books.isNil
            /\ ctx'[w].body.books.items = <<>>]_vars

\* a Get-all has been answered 200 with an empty list on a table that
\* deletes have emptied
C7_Witness ==
    \E w \in DOMAIN ctx :
      /\ ctx[w].pc = "written"
      /\ ctx[w].method = "GET"
      /\ ctx[w].fullPath = "/api/v1/books"
      /\ ctx[w].status = StatusOK
      /\ ctx[w].body = BooksBody([isNil |-> FALSE, items |-> <<>>])
      /\ DOMAIN books = {}
      /\ deleted # {}

\* C8: the list a Get-all answers 200 with holds every live item as it is
\* stored, once, and nothing else, the created-at never rising along the
\* list.
C8_GetAllListsLiveItems ==
    [][\A w \in DOMAIN ctx :
         (BookHandler_GetAllBooks(w, FALSE) /\ ctx'[w].status = StatusOK)
         => LET items == ctx'[w].body.books.items
            IN  /\ Len(items) = Cardinality(DOMAIN books)
                /\ \A id \in DOMAIN books :
                     \E k \in 1..Len(items) : items[k] = Scan(books[id])
                /\ \A j, k \in 1..Len(items) :
                     j < k => items[j].CreatedAt.wall >= items[k].CreatedAt.wall]_vars

\* a Get-all has been answered with two items, the later created first
C8_Witness ==
    \E w \in DOMAIN ctx :
      /\ ctx[w].pc = "written"
      /\ ctx[w].method = "GET"
      /\ ctx[w].fullPath = "/api/v1/books"
      /\ ctx[w].status = StatusOK
      /\ Len(ctx[w].body.books.items) = 2
      /\ ctx[w].body.books.items[1].CreatedAt.wall
           > ctx[w].body.books.items[2].CreatedAt.wall

\* C9: an Update with an integer id that has no live item and a body that
\* parses is answered 404 by the step that read the table: no UPDATE
\* follows, and the table and the id sequence are as they were.  (The step
\* of the handler is the one that takes the request out of "handler"; it
\* answers 400 when the id or the body does not parse, and leaves the id it
\* parsed in the context.)
C9_UpdateOfAbsentID ==
    [][\A w \in DOMAIN ctx :
         (/\ Handling(w, "PUT", "/api/v1/books/:id")
          /\ ctx'[w].pc # "handler"
          /\ ctx'[w].status # StatusBadRequest
          /\ ctx'[w].id \notin DOMAIN books)
         => /\ ctx'[w].pc = "written"
            /\ ctx'[w].status = StatusNotFound
            /\ books' = books
            /\ books_id_seq' = books_id_seq]_vars

\* an Update of an id that has no live item has been answered 404 while
\* another item is live
C9_Witness ==
    \E w \in DOMAIN ctx :
      /\ ctx[w].pc = "written"
      /\ ctx[w].method = "PUT"
      /\ ctx[w].status = StatusNotFound
      /\ ctx[w].id > 0
      /\ ctx[w].id \notin DOMAIN books
      /\ DOMAIN books # {}

\* a member of the body is missing
MissingField(json) ==
    \/ ~Present(json.title) \/ ~Present(json.author) \/ ~Present(json.isbn)
    \/ ~Present(json.price) \/ ~Present(json.published_at)

NegativePrice(json) == Present(json.price) /\ Value(json.price) < 0

\* C10: a Create whose body parses is answered 400 exactly when a member is
\* missing or the price is negative; any other, a price of 0 included, goes
\* on to the INSERT.
C10_CreateValidation ==
    [][\A w \in DOMAIN ctx :
         Handling(w, "POST", "/api/v1/books")
         => \A json \in CreateBodies :
              (json.wellformed /\ BookHandler_CreateBook(w, json))
              => IF MissingField(json) \/ NegativePrice(json)
                 THEN /\ ctx'[w].pc = "written"
                      /\ ctx'[w].status = StatusBadRequest
                 ELSE ctx'[w].pc = "insert"]_vars

\* C11: a request answered 400 has left the table and the id sequence as
\* they were and has made no call of the repository: no series of
\* db_query_total or db_query_duration_seconds has changed, and no store
\* statement has taken time.
C11_BadRequestTouchesNothing ==
    [][\A w \in DOMAIN ctx :
         (/\ ctx[w].pc # "written"
          /\ ctx'[w].pc = "written"
          /\ ctx'[w].status = StatusBadRequest)
         => /\ books' = books
            /\ books_id_seq' = books_id_seq
            /\ dbQueryTotal' = dbQueryTotal
            /\ dbQueryDuration' = dbQueryDuration
            /\ clock' = clock]_vars

\* a request on an id path has been answered 400 while an item is live and
\* only the Create that made it has reached the repository
C11_Witness ==
    \E w \in DOMAIN ctx :
      /\ ctx[w].pc = "written"
      /\ ctx[w].fullPath = "/api/v1/books/:id"
      /\ ctx[w].status = StatusBadRequest
      /\ DOMAIN books # {}
      /\ DOMAIN dbQueryTotal = {<<"create", "books", "success">>}
      /\ DOMAIN dbQueryDuration = {<<"create", "books">>}

\* C12: when the store fails a statement for another reason than a missing
\* row, Create, Get-all, Get-by-ID and Delete answer 500, and Update
\* answers 404.
C12_StorageFailureStatus ==
    [][\A w \in DOMAIN ctx :
         /\ BookRepository_CreateBook(w, TRUE)
            => ctx'[w].status = StatusInternalServerError
         /\ (BookRepository_CreateBook(w, FALSE) /\ books' = books)
            => ctx'[w].status = StatusInternalServerError
         /\ BookHandler_GetAllBooks(w, TRUE)
            => ctx'[w].status = StatusInternalServerError
         /\ BookRepository_UpdateBook(w, TRUE)
            => ctx'[w].status = StatusNotFound
         /\ \A idStr \in PathParams :
              ~Atoi(idStr).err
              => /\ BookHandler_GetBookByID(w, idStr, TRUE)
                    => ctx'[w].status = StatusInternalServerError
                 /\ BookHandler_DeleteBook(w, idStr, TRUE)
                    => ctx'[w].status = StatusInternalServerError
                 /\ \A json \in FewUpdateBodies :
                      BookHandler_UpdateBook(w, idStr, json, TRUE)
                      => ctx'[w].status = StatusNotFound]_vars

\* C13: an Update whose id and body parse and that is not answered 200 is
\* answered 404 with the body {"error": "Book not found"} and leaves the
\* table as it was; an Update that would give a live item the ISBN another
\* live item holds is one of them.
C13_UpdateFailureIsNotFound ==
    [][\A w \in DOMAIN ctx :
         /\ (/\ ctx[w].method = "PUT"
             /\ ctx[w].pc # "written"
             /\ ctx'[w].pc = "written"
             /\ ctx'[w].status \notin {StatusOK, StatusBadRequest})
            => /\ ctx'[w].status = StatusNotFound
               /\ ctx'[w].body = ErrorBody("Book not found")
               /\ books' = books
         /\ (/\ BookRepository_UpdateBook(w, FALSE)
             /\ \E i \in DOMAIN books :
                  i # ctx[w].id /\ books[i].isbn = ctx[w].existing.ISBN)
            => /\ ctx'[w].status = StatusNotFound
               /\ books' = books]_vars

\* an Update that set a live item's ISBN to the ISBN of another live item
\* has been answered 404
C13_Witness ==
    \E w \in DOMAIN ctx :
      /\ ctx[w].pc = "written"
      /\ ctx[w].method = "PUT"
      /\ ctx[w].status = StatusNotFound
      /\ ctx[w].id \in DOMAIN books
      /\ Present(ctx[w].req.ISBN)
      /\ \E i \in DOMAIN books :
           /\ i # ctx[w].id
           /\ books[i].isbn = Value(ctx[w].req.ISBN)
           /\ books[ctx[w].id].isbn # books[i].isbn

\* the requests that have entered the middleware and not left it
InProgress == {w \in DOMAIN ctx : ctx[w].pc # "idle"}

\* C14: http_requests_in_flight is the number of requests that have entered
\* the middleware and not left it, whether they leave it with a response of
\* any status or by a panic of the handler; so it is never negative and is
\* 0 when no request is in progress.
C14_InFlightCountsRequests ==
    /\ httpRequestsInFlight = Cardinality(InProgress)
    /\ httpRequestsInFlight >= 0
    /\ InProgress = {} => httpRequestsInFlight = 0

\* two requests are in progress at once and the gauge reads 2, after a
\* request that panicked and a request that was answered 201
C14_Witness ==
    /\ Cardinality(InProgress) = 2
    /\ httpRequestsInFlight = 2
    /\ recovered > 0
    /\ \E k \in DOMAIN httpRequestsTotal : k[3] = StatusCreated

\* the live items that hold the ISBN
Holders(isbn) == {i \in DOMAIN books : books[i].isbn = isbn}

\* w's request is a Create that passed validation and has been answered
CreateAnswered(w) ==
    /\ ctx[w].pc = "written"
    /\ ctx[w].method = "POST"
    /\ ctx[w].status # StatusBadRequest

\* the item w's Create returned, if it returned one
Returned(w) ==
    IF ctx[w].body.kind = "book" THEN {ctx[w].body.book.ID} ELSE {}

C16_UpdateWritesWhatItRead ==
    [][\A w \in DOMAIN ctx :
         (BookRepository_UpdateBook(w, FALSE) /\ ctx'[w].status = StatusOK)
         => LET after == books'[ctx[w].id]
                read == ctx[w].existing
            IN  /\ after.title = read.Title
                /\ after.author = read.Author
                /\ after.isbn = read.ISBN
                /\ after.price = Numeric(read.Price)
                /\ after.published_at = Timestamp(read.PublishedAt)]_vars

\* the lost update: w1 set only the title and w2 only the price of one live
\* item, both were answered 200, w1 with its title in the item returned, and
\* the item stored has w2's price and the title it had before
C16_Witness ==
    /\ ctx["w1"].pc = "written" /\ ctx["w2"].pc = "written"
    /\ ctx["w1"].method = "PUT" /\ ctx["w2"].method = "PUT"
    /\ ctx["w1"].status = StatusOK /\ ctx["w2"].status = StatusOK
    /\ ctx["w1"].id = ctx["w2"].id
    /\ ctx["w1"].id \in DOMAIN books
    /\ Present(ctx["w1"].req.Title)
    /\ Present(ctx["w2"].req.Price)
    /\ ctx["w1"].body.book.Title = Value(ctx["w1"].req.Title)
    /\ books[ctx["w1"].id].price = Numeric(Value(ctx["w2"].req.Price))
    /\ books[ctx["w1"].id].title # Value(ctx["w1"].req.Title)
    /\ books[ctx["w1"].id].title = ctx["w2"].existing.Title

\* C17: the updated-at a successful UPDATE stores is strictly later than
\* the updated-at it replaces, under every interleaving of Updates.
C17_UpdatedAtAdvances ==
    [][\A w \in DOMAIN ctx :
         (/\ BookRepository_UpdateBook(w, FALSE)
          /\ ctx'[w].status = StatusOK)
         => books'[ctx[w].id].updated_at > books[ctx[w].id].updated_at]_vars

\* C18: the id and the created-at a Create returned are those of the row it
\* stored; no step changes them while the item is live; and an Update that
\* is answered 200 returns them.
C18_IDAndCreatedAtFixed ==
    [][/\ \A id \in DOMAIN books \cap DOMAIN books' :
            /\ books'[id].id = books[id].id
            /\ books'[id].created_at = books[id].created_at
       /\ \A id \in DOMAIN books' : books'[id].id = id
       /\ \A w \in DOMAIN ctx :
            /\ (BookRepository_CreateBook(w, FALSE)
                /\ ctx'[w].status = StatusCreated)
               => LET b == ctx'[w].body.book
                  IN  /\ b.ID \in DOMAIN books' \ DOMAIN books
                      /\ b.CreatedAt = FromTimestamp(books'[b.ID].created_at)
            /\ (BookRepository_UpdateBook(w, FALSE)
                /\ ctx'[w].status = StatusOK)
               => LET b == ctx'[w].body.book
                  IN  /\ b.ID = ctx[w].id
                      /\ b.CreatedAt = FromTimestamp(books[b.ID].created_at)]_vars

\* two Updates of one item, in progress together, have been answered 200
\* with the created-at the item has had since its Create
C18_Witness ==
    /\ ctx["w1"].pc = "written" /\ ctx["w2"].pc = "written"
    /\ ctx["w1"].method = "PUT" /\ ctx["w2"].method = "PUT"
    /\ ctx["w1"].status = StatusOK /\ ctx["w2"].status = StatusOK
    /\ ctx["w1"].id = ctx["w2"].id
    /\ ctx["w1"].id \in DOMAIN books
    /\ ctx["w1"].body.book.CreatedAt = ctx["w2"].body.book.CreatedAt
    /\ ctx["w1"].body.book.CreatedAt.wall = books[ctx["w1"].id].created_at
    /\ books[ctx["w1"].id].updated_at > books[ctx["w1"].id].created_at

\* C19: every live item has updated-at >= created-at.
C19_UpdatedAtNotBeforeCreatedAt ==
    \A id \in DOMAIN books : books[id].updated_at >= books[id].created_at

\* an item made after a Delete has been updated and its updated-at is past
\* its created-at
C19_Witness ==
    /\ deleted # {}
    /\ \E id \in DOMAIN books : books[id].updated_at > books[id].created_at

\* C20: no two live items have the same ISBN.
C20_ISBNUnique ==
    \A i, j \in DOMAIN books : books[i].isbn = books[j].isbn => i = j

\* two items are live and an Update that set the ISBN of one to the ISBN of
\* the other, in progress together with the Create of the other, has been
\* answered 404
C20_Witness ==
    \E w, v \in DOMAIN ctx :
      /\ w # v
      /\ ctx[w].pc = "written" /\ ctx[w].method = "PUT"
      /\ ctx[w].status = StatusNotFound
      /\ ctx[w].id \in DOMAIN books
      /\ Present(ctx[w].req.ISBN)
      /\ CreateAnswered(v) /\ ctx[v].status = StatusCreated
      /\ ctx[v].body.book.ID # ctx[w].id
      /\ ctx[v].body.book.ID \in DOMAIN books
      /\ books[ctx[v].body.book.ID].isbn = Value(ctx[w].req.ISBN)

\* C21: every stored item has a title that is not empty, an author that is
\* not empty and a price >= 0.
C21_StoredItemsValid ==
    \A id \in DOMAIN books :
      /\ books[id].title # ""
      /\ books[id].author # ""
      /\ books[id].price >= 0

\* the value of a series, 0 while it does not exist
Count(vec, k) == IF k \in DOMAIN vec THEN vec[k] ELSE 0

\* from this state to the next exactly the series k of the vector has
\* changed, and it has gone up by one
OnlyIncremented(vec, vecNext, k) ==
    /\ DOMAIN vecNext = DOMAIN vec \cup {k}
    /\ \A j \in DOMAIN vecNext :
         Count(vecNext, j) = Count(vec, j) + (IF j = k THEN 1 ELSE 0)

\* C22: the step in which a request whose handler has returned leaves the
\* middleware adds one to the series of http_requests_total labelled with
\* the request's method, its route template and the status written, and to
\* no other; no other step changes http_requests_total, so its sum is the
\* number of requests that have left the middleware that way.
C22_RequestsCountedOnExit ==
    [][/\ \A w \in DOMAIN ctx :
            (ctx[w].pc = "written" /\ ctx'[w].pc = "idle")
            => OnlyIncremented(httpRequestsTotal, httpRequestsTotal',
                               <<ctx[w].method, ctx[w].fullPath,
                                 ctx[w].status>>)
       /\ (\A w \in DOMAIN ctx : ~(ctx[w].pc = "written" /\ ctx'[w].pc = "idle"))
          => httpRequestsTotal' = httpRequestsTotal]_vars

\* three requests have left the middleware, answered 201, 500 and 404, and
\* are counted in three series; a fourth, that panicked, is not counted
C22_Witness ==
    /\ Total(httpRequestsTotal) = 3
    /\ recovered = 1
    /\ httpRequestsInFlight = 0
    /\ <<"POST", "/api/v1/books", StatusCreated>> \in DOMAIN httpRequestsTotal
    /\ <<"POST", "/api/v1/books", StatusInternalServerError>>
         \in DOMAIN httpRequestsTotal
    /\ \E m \in {"GET", "PUT", "DELETE"} :
         <<m, "/api/v1/books/:id", StatusNotFound>> \in DOMAIN httpRequestsTotal

\* this step adds one to the series (op, books, outcome) of db_query_total
\* and changes no other series
Counted(op, outcome) ==
    OnlyIncremented(dbQueryTotal, dbQueryTotal', <<op, "books", outcome>>)

\* the step counts a failed call on id as op/not_found when the id is
\* absent, and as op/error otherwise
CountedFailure(op, id) ==
    \/ id \notin DOMAIN books /\ Counted(op, "not_found")
    \/ Counted(op, "error")

\* C23: every call of a repository method adds one to exactly one series of
\* db_query_total, the one of the method's own operation and of the outcome
\* it returned: create and select_all count success or error; select and
\* delete count success, not_found for an absent id, or error; an update
\* counts nothing while it reads and overlays, and counts update/success,
\* update/not_found or update/error when it returns.
C23_OneSeriesPerRepositoryCall ==
    [][\A w \in DOMAIN ctx :
         /\ (ctx[w].pc = "insert" /\ ctx'[w].pc = "written")
            => Counted("create",
                       IF ctx'[w].status = StatusCreated THEN "success"
                       ELSE "error")
         /\ (Handling(w, "GET", "/api/v1/books") /\ ctx'[w].pc = "written")
            => Counted("select_all",
                       IF ctx'[w].status = StatusOK THEN "success"
                       ELSE "error")
         /\ (/\ Handling(w, "GET", "/api/v1/books/:id")
             /\ ctx'[w].pc = "written"
             /\ ctx'[w].status # StatusBadRequest)
            => IF ctx'[w].status = StatusOK THEN Counted("select", "success")
               ELSE CountedFailure("select", ctx'[w].id)
         /\ (/\ Handling(w, "DELETE", "/api/v1/books/:id")
             /\ ctx'[w].pc = "written"
             /\ ctx'[w].status # StatusBadRequest)
            => IF ctx'[w].status = StatusNoContent
               THEN Counted("delete", "success")
               ELSE CountedFailure("delete", ctx'[w].id)
         /\ (Handling(w, "PUT", "/api/v1/books/:id") /\ ctx'[w].pc = "stamp")
            => dbQueryTotal' = dbQueryTotal
         /\ (/\ Handling(w, "PUT", "/api/v1/books/:id")
             /\ ctx'[w].pc = "written"
             /\ ctx'[w].status # StatusBadRequest)
            => CountedFailure("update", ctx'[w].id)
         /\ (ctx[w].pc = "update" /\ ctx'[w].pc = "written")
            => Counted("update",
                       IF ctx'[w].status = StatusOK THEN "success"
                       ELSE "error")]_vars

\* the values the path label has taken in http_requests_total
PathLabels == {k[2] : k \in DOMAIN httpRequestsTotal}

C26_UpdateDoesNotResurrect ==
    [][/\ \A w \in DOMAIN ctx :
            /\ (/\ ctx[w].pc = "update"
                /\ ctx'[w].pc = "written"
                /\ ctx[w].id \notin DOMAIN books)
               => /\ ctx'[w].status = StatusNotFound
                  /\ books' = books
                  /\ Counted("update", "error")
            /\ (/\ Handling(w, "GET", "/api/v1/books/:id")
                /\ ctx'[w].pc = "written"
                /\ ctx'[w].id \in deleted)
               => ctx'[w].status = StatusNotFound
       /\ \A id \in deleted' : id \notin DOMAIN books']_vars

\* an Update that had read its book and does not change the ISBN has been
\* answered 404 after the book was deleted, and is counted as update/error
C26_Witness ==
    \E w \in DOMAIN ctx :
      /\ ctx[w].pc = "written"
      /\ ctx[w].method = "PUT"
      /\ ctx[w].status = StatusNotFound
      /\ ~Present(ctx[w].req.ISBN)
      /\ ctx[w].existing.ID = ctx[w].id
      /\ ctx[w].id \in deleted
      /\ ctx[w].id \notin DOMAIN books
      /\ Count(dbQueryTotal, <<"update", "books", "error">>) = 1

\* w's request is a DELETE of id that has been answered with status
DeleteAnswered(w, id, status) ==
    /\ ctx[w].pc = "written"
    /\ ctx[w].method = "DELETE"
    /\ ctx[w].id = id
    /\ ctx[w].status = status

\* C27: the DELETE statement of a Delete request decides its answer: when
\* the id is live the request is answered 204, the row is removed and
\* delete/success is counted; when it is not, the request is answered 404,
\* the table is unchanged and delete/not_found is counted; so of the Delete
\* requests for one id in flight together at most one is answered 204.
C27_ConcurrentDeletesOneWins ==
    [][/\ \A w \in DOMAIN ctx :
            (/\ Handling(w, "DELETE", "/api/v1/books/:id")
             /\ ctx'[w].pc = "written"
             /\ ctx'[w].status # StatusBadRequest)
            => IF ctx'[w].id \in DOMAIN books
               THEN /\ ctx'[w].status = StatusNoContent
                    /\ DOMAIN books' = DOMAIN books \ {ctx'[w].id}
                    /\ Counted("delete", "success")
               ELSE /\ ctx'[w].status = StatusNotFound
                    /\ books' = books
                    /\ Counted("delete", "not_found")
       /\ \A v, w \in DOMAIN ctx :
            (/\ v # w
             /\ ctx'[v].pc = "written" /\ ctx'[w].pc = "written"
             /\ ctx'[v].method = "DELETE" /\ ctx'[w].method = "DELETE"
             /\ ctx'[v].id = ctx'[w].id
             /\ ctx'[v].status = StatusNoContent)
            => ctx'[w].status # StatusNoContent]_vars

\* two Delete requests for one book are in flight together and both are
\* answered: one 204 and the other 404, counted success and not_found
C27_Witness ==
    \E v, w \in DOMAIN ctx, id \in deleted :
      /\ v # w
      /\ DeleteAnswered(v, id, StatusNoContent)
      /\ DeleteAnswered(w, id, StatusNotFound)
      /\ httpRequestsInFlight = 2
      /\ Count(dbQueryTotal, <<"delete", "books", "success">>) = 1
      /\ Count(dbQueryTotal, <<"delete", "books", "not_found">>) = 1

\* g's step sends the DELETE of deleteBook
IssuesDelete(g) ==
    goroutines[g].pc = "deleteDo" /\ goroutines'[g].pc # "deleteDo"

\* g's step is the removeBookID of deleteBook
DeleteRemoves(g) ==
    goroutines[g].pc = "deleteRemove" /\ goroutines'[g].pc = "idle"

\* C25: the load tester keeps a minimum inventory whatever the number of
\* its workers: deleteBook sends a DELETE only while more than 5 ids are
\* tracked, and the removal that follows leaves at least 5 ids tracked.
C25_MinimumInventory ==
    [][\A g \in Goroutines :
         /\ IssuesDelete(g) => Len(createdBookIDs) > MinInventory
         /\ DeleteRemoves(g) => Len(createdBookIDs') >= MinInventory]_vars

====
